---- MODULE Spec2Model ----
(***************************************************************************)
(* Model of main.py ("Hello Coral"): camera capability probe, resolution   *)
(* selection, scale factors, and the live inference loop with detection    *)
(* remapping.                                                              *)
(*                                                                         *)
(* Numbers: a Python float that results from n / d or x * (n / d) is kept  *)
(* as <<num, den, err, e>>, the real result num/den together with what     *)
(* rounding to a double added to it; int() is truncation toward zero of    *)
(* the double.  Strings are sequences of one-character strings.            *)
(***************************************************************************)
EXTENDS Integers, Sequences, FiniteSets, TLC

\* ------------------------------------------------------------------ bounds
MaxLen == 2      \* longest line typed at the resolution prompt
MaxDet == 2      \* most detections returned for one frame

\* --------------------------------------------------------------- constants
\* risoluzioni_da_testare, main.py:234-240
risoluzioni_da_testare ==
    << <<640, 480>>, <<800, 600>>, <<1024, 768>>, <<1280, 720>>, <<1920, 1080>> >>

\* SOGLIA_CONFIDENZA_DEFAULT / SOGLIA_CONFIDENZA_DEBUG in percent, main.py:88-89
SOGLIA_CONFIDENZA_DEFAULT == 70
SOGLIA_CONFIDENZA_DEBUG == 10

None == <<"None">>
Unset == <<"unset">>

\* ------------------------------------------------------------ environment
\* Capture devices: the frame sizes the driver can deliver, the size it is
\* in when opened, and what it does with a request for a size it cannot
\* deliver: a rigid driver refuses it and keeps its format, the others
\* adjust the other dimension to a mode they have (cap.set is best effort).
\* A backend that does not support the frame size properties answers
\* cap.get with 0 (reports = FALSE) and refuses every cap.set.
Devices ==
    { [modes |-> {<<640, 480>>},                              rigid |-> TRUE,  start |-> <<640, 480>>, reports |-> TRUE],
      [modes |-> {<<640, 480>>, <<1280, 720>>},               rigid |-> FALSE, start |-> <<640, 480>>, reports |-> TRUE],
      [modes |-> {<<640, 480>>, <<1280, 720>>},               rigid |-> FALSE, start |-> <<1280, 720>>, reports |-> TRUE],
      [modes |-> {<<640, 480>>, <<800, 480>>, <<800, 600>>},  rigid |-> TRUE,  start |-> <<640, 480>>, reports |-> TRUE],
      [modes |-> {<<320, 240>>, <<640, 480>>, <<640, 240>>},  rigid |-> TRUE,  start |-> <<320, 240>>, reports |-> TRUE],
      [modes |-> {<<640, 480>>, <<1280, 480>>},               rigid |-> TRUE,  start |-> <<640, 480>>, reports |-> TRUE],
      [modes |-> {<<640, 480>>, <<1280, 480>>, <<1280, 720>>, <<1920, 1080>>},
                                                              rigid |-> FALSE, start |-> <<640, 480>>, reports |-> TRUE],
      [modes |-> {<<640, 480>>, <<1280, 480>>, <<1280, 720>>, <<1920, 720>>, <<1920, 1080>>},
                                                              rigid |-> TRUE,  start |-> <<640, 480>>, reports |-> TRUE],
      [modes |-> {<<640, 480>>},                              rigid |-> TRUE,  start |-> <<640, 480>>, reports |-> FALSE] }

\* What the file system holds of PATH_MODELLO and PATH_ETICHETTE
FileStates == {"both", "no_model", "no_labels"}

\* The labels file: whether open/readlines succeed (leggibile) and the lines
\* readlines() returns
LabelFiles ==
    { [leggibile |-> FALSE, lines |-> <<>>],
      [leggibile |-> TRUE,  lines |-> <<>>],
      [leggibile |-> TRUE,  lines |-> << <<"p", "\n">>, <<"b", " ", "\n">> >>] }

\* Input sizes a detection model can report (common.input_size)
InputSizes == { <<300, 300>>, <<416, 416>> }

\* Characters a line read by input() is made of
Chars == {"0", "1", "2", "3", "-", " ", "a"}
Digits == {"0", "1", "2", "3"}

RECURSIVE SeqsUpTo(_, _)
SeqsUpTo(S, n) ==
    IF n = 0 THEN {<<>>}
    ELSE LET shorter == SeqsUpTo(S, n - 1)
         IN  shorter \cup { Append(s, c) : s \in { t \in shorter : Len(t) = n - 1 }, c \in S }

Lines == SeqsUpTo(Chars, MaxLen)

\* ------------------------------------------------------- cv2.VideoCapture
\* cap.set(CAP_PROP_FRAME_WIDTH, w): the sizes the device d may be in afterwards
CapSetWidth(d, res, w) ==
    IF <<w, res[2]>> \in d.modes THEN { <<w, res[2]>> }
    ELSE IF d.rigid \/ ~ \E m \in d.modes : m[1] = w THEN { res }
    ELSE { m \in d.modes : m[1] = w }

\* cap.set(CAP_PROP_FRAME_HEIGHT, h)
CapSetHeight(d, res, h) ==
    IF <<res[1], h>> \in d.modes THEN { <<res[1], h>> }
    ELSE IF d.rigid \/ ~ \E m \in d.modes : m[2] = h THEN { res }
    ELSE { m \in d.modes : m[2] = h }

\* the two separate requests of main.py:250-251, 263-264, 381-382
CapSetSize(d, res, w, h) ==
    UNION { CapSetHeight(d, r, h) : r \in CapSetWidth(d, res, w) }

\* <<int(cap.get(CAP_PROP_FRAME_WIDTH)), int(cap.get(CAP_PROP_FRAME_HEIGHT))>>,
\* main.py:229-230, 254-255, 385-386
CapGet(d, res) == IF d.reports THEN res ELSE <<0, 0>>

\* --------------------------------------------------------- Python helpers
DigitVal(c) == CASE c = "0" -> 0 [] c = "1" -> 1 [] c = "2" -> 2 [] c = "3" -> 3 [] OTHER -> 0

RECURSIVE LStrip(_)
LStrip(s) == IF s # <<>> /\ Head(s) = " " THEN LStrip(Tail(s)) ELSE s

RECURSIVE RStrip(_)
RStrip(s) == IF s # <<>> /\ s[Len(s)] = " " THEN RStrip(SubSeq(s, 1, Len(s) - 1)) ELSE s

RECURSIVE DigitsValue(_)
DigitsValue(s) == IF s = <<>> THEN 0 ELSE 10 * DigitsValue(SubSeq(s, 1, Len(s) - 1)) + DigitVal(s[Len(s)])

\* int(scelta_str): surrounding blanks are ignored, one optional sign, then
\* one or more decimal digits; anything else raises ValueError.
ParseInt(s) ==
    LET t    == RStrip(LStrip(s))
        neg  == t # <<>> /\ Head(t) = "-"
        body == IF neg THEN Tail(t) ELSE t
        ok   == body # <<>> /\ \A i \in 1..Len(body) : body[i] \in Digits
    IN  [ok |-> ok, val |-> IF ok THEN (IF neg THEN 0 - DigitsValue(body) ELSE DigitsValue(body)) ELSE 0]

\* line.strip(), main.py:113
Whitespace == {" ", "\n"}

RECURSIVE Strip(_)
Strip(s) ==
    IF s # <<>> /\ Head(s) \in Whitespace THEN Strip(Tail(s))
    ELSE IF s # <<>> /\ s[Len(s)] \in Whitespace THEN Strip(SubSeq(s, 1, Len(s) - 1))
    ELSE s

\* variant: the lines are numbered from 1
Etichette_da1(lines) == [k \in 1..Len(lines) |-> Strip(lines[k])]

\* the dict built by carica_etichette, main.py:110-115
Etichette(lines) == [k \in 0..(Len(lines) - 1) |-> Strip(lines[k + 1])]

\* etichette.get(id, 'Sconosciuto'), main.py:166
Sconosciuto == <<"Sconosciuto">>
EtichettaDi(etichette, id) == IF id \in DOMAIN etichette THEN etichette[id] ELSE Sconosciuto

\* ------------------------------------------------------- IEEE 754 doubles
\* A Python float that came from dividing two ints, or from multiplying such
\* a quotient by an int, is kept as <<num, den, err, e>>: the double is
\* num/den + err/(den * 2^e), where num/den is the real result and the
\* second term is what rounding to 53 significant bits added.

\* the m with 2^m <= n/d < 2^(m+1), for n, d > 0
RECURSIVE Log2Floor(_, _)
Log2Floor(n, d) ==
    IF n >= 2 * d THEN Log2Floor(n, 2 * d) + 1
    ELSE IF n < d THEN Log2Floor(2 * n, d) - 1
    ELSE 0

RECURSIVE Pow2(_)
Pow2(k) == IF k = 0 THEN 1 ELSE 2 * Pow2(k - 1)

\* (n * 2^e) mod m, for m < 2^22
RECURSIVE ShiftMod(_, _, _)
ShiftMod(n, e, m) ==
    IF n >= m THEN ShiftMod(n % m, e, m)
    ELSE IF e >= 8 THEN ShiftMod(256 * n, e - 8, m)
    ELSE IF e > 0 THEN ShiftMod(2 * n, e - 1, m)
    ELSE n

\* round to nearest, ties to even: what is added to a value whose part
\* below the last kept bit is low (of unit), odd telling the last kept bit
RoundAdj(low, unit, odd) ==
    IF low = 0 THEN 0
    ELSE IF 2 * low < unit THEN 0 - low
    ELSE IF 2 * low > unit THEN unit - low
    ELSE IF odd THEN unit - low ELSE 0 - low

\* the exponent e that puts n/d * 2^e in [2^52, 2^53)
Esponente(n, d) == 52 - Log2Floor(n, d)

\* the quotient from r2 = (n * 2^e) mod 2d: r2 mod d is what is left below the
\* last bit of the significand, and that bit is 1 iff r2 >= d
TrueDivR(n, d, e, r2) == <<n, d, RoundAdj(r2 % d, d, r2 >= d), e>>

TrueDivE(n, d, e) == TrueDivR(n, d, e, ShiftMod(n, e, 2 * d))

\* n / d, Python true division of two ints, n >= 0, d > 0
TrueDiv(n, d) == IF n = 0 THEN <<0, d, 0, 0>> ELSE TrueDivE(n, d, Esponente(n, d))

\* n/d = 2^m
EsattaPotenza(n, d, m) == IF m >= 0 THEN n = d * Pow2(m) ELSE n * Pow2(0 - m) = d

\* x * s for an int x > 0 and a quotient s = TrueDiv(n, d), n > 0.  With
\* Q = (n * 2^e + err) / d the significand of s, the product x * Q / 2^e lies
\* in [2^m, 2^(m+1)) and is rounded at the bit of weight p = 2^k of x * Q,
\* k = m - (52 - e); xQ is x * Q mod 2p.
MulPosQ(x, s, p, xQ) ==
    <<x * s[1], s[2], x * s[3] + s[2] * RoundAdj(xQ % p, p, xQ >= p), s[4]>>

MulPosP(x, s, p) ==
    MulPosQ(x, s, p, (x * (((ShiftMod(s[1], s[4], 2 * p * s[2]) + s[3]) \div s[2]) % (2 * p))) % (2 * p))

MulPosM(x, s, m0) ==
    MulPosP(x, s, Pow2((IF s[3] < 0 /\ EsattaPotenza(x * s[1], s[2], m0) THEN m0 - 1 ELSE m0)
                       - (52 - s[4])))

MulPos(x, s) == MulPosM(x, s, Log2Floor(x * s[1], s[2]))

\* x * s for an int x and a quotient s, pycoral BBox.scale
MulFrac(x, s) ==
    IF x = 0 \/ s[1] = 0 THEN <<0, s[2], 0, s[4]>>
    ELSE IF x > 0 THEN MulPos(x, s)
    ELSE LET p == MulPos(0 - x, s) IN <<0 - p[1], p[2], 0 - p[3], p[4]>>

\* int(f): truncation toward zero
ToInt(q) ==
    LET a == IF q[1] >= 0 THEN q[1] ELSE 0 - q[1]
        g == IF q[1] >= 0 THEN q[3] ELSE 0 - q[3]
        t == IF a % q[2] = 0 /\ a > 0 /\ g < 0 THEN a \div q[2] - 1 ELSE a \div q[2]
    IN  IF q[1] >= 0 THEN t ELSE 0 - t


\* ------------------------------------------------------------- detections
\* obj.bbox boxes <<xmin, ymin, xmax, ymax>> in the input space of a model of
\* size M, as detect.get_objects hands them over: ints with xmin <= xmax and
\* ymin <= ymax that may lie a little outside the input.
Boxes(M) ==
    { <<20, 10, 60, 50>>,
      <<0, 0, M[1], M[2]>>,
      <<0 - 1, 0, 100, 100>>,
      <<0, 0 - 1, 100, 100>>,
      <<0, 0, M[1] + 1, 100>>,
      <<0, 0, 100, M[2] + 1>> }

\* What the interpreter outputs for a frame: class id, score in percent,
\* box.  err says where handling the object raises: "remap" while scaling or
\* converting the box (main.py:150-158), "draw" in cv2.rectangle (main.py:171).
Detections(M) ==
    { [bbox |-> b, id |-> IF b = <<0, 0, M[1], M[2]>> THEN 1 ELSE 0, score |-> 90, err |-> "none"] :
          b \in Boxes(M) }
    \cup { [bbox |-> <<20, 10, 60, 50>>, id |-> 2, score |-> 50, err |-> "none"] }
    \cup { [bbox |-> <<20, 10, 60, 50>>, id |-> 0, score |-> 90, err |-> e] : e \in {"remap", "draw"} }

\* detect.get_objects(interpreter, score_threshold), called at main.py:434:
\* the outputs whose score reaches the threshold, in their order
GetObjectsOf(uscita, soglia) == SelectSeq(uscita, LAMBDA o : o.score >= soglia)

\* variant: one shared factor for both axes
BBoxScale_unica(bbox, sx, sy) ==
    << MulFrac(bbox[1], sx), MulFrac(bbox[2], sx), MulFrac(bbox[3], sx), MulFrac(bbox[4], sx) >>

\* pycoral BBox.scale(sx, sy), called at main.py:150
BBoxScale(bbox, sx, sy) ==
    << MulFrac(bbox[1], sx), MulFrac(bbox[2], sy), MulFrac(bbox[3], sx), MulFrac(bbox[4], sy) >>

\* main.py:155-158
BBoxToInt(b) == << ToInt(b[1]), ToInt(b[2]), ToInt(b[3]), ToInt(b[4]) >>

\* variant: the far edges are exclusive
DentroIlFrame_stretto(r, shape) ==
    ~ (r[1] < 0 \/ r[2] < 0 \/ r[3] >= shape[2] \/ r[4] >= shape[1])

\* the negation of the test of main.py:162 (shape = <<height, width>>)
DentroIlFrame(r, shape) ==
    ~ (r[1] < 0 \/ r[2] < 0 \/ r[3] > shape[2] \/ r[4] > shape[1])

\* disegna_risultati, main.py:142-191.  k is the next object of the for loop;
\* acc collects the boxes scaled so far (scalate), the rectangles drawn
\* (disegnati, with the position of their object and the class name put in
\* the text) and whether the except branch printed an error.  A raise leaves
\* the for loop for good.
RECURSIVE DisegnaDa(_, _, _, _, _, _, _)
DisegnaDa(k, acc, oggetti, shape, etichette, sx, sy) ==
    IF k > Len(oggetti) THEN acc
    ELSE LET obj     == oggetti[k]
             scalata == BBoxScale(obj.bbox, sx, sy)
             r       == BBoxToInt(scalata)
             acc1    == [acc EXCEPT !.scalate = Append(@, [k |-> k, bbox |-> scalata])]
             nome    == EtichettaDi(etichette, obj.id)
         IN  IF obj.err = "remap" THEN [acc EXCEPT !.errore = TRUE]
             ELSE IF ~ DentroIlFrame(r, shape) THEN DisegnaDa(k + 1, acc1, oggetti, shape, etichette, sx, sy)
             ELSE IF obj.err = "draw" THEN [acc1 EXCEPT !.errore = TRUE]
             ELSE DisegnaDa(k + 1,
                            [acc1 EXCEPT !.disegnati = Append(@, [k |-> k, rect |-> r, nome |-> nome])],
                            oggetti, shape, etichette, sx, sy)

NessunDisegno == [scalate |-> <<>>, disegnati |-> <<>>, errore |-> FALSE]

disegna_risultati(shape, oggetti, etichette, sx, sy) ==
    DisegnaDa(1, NessunDisegno, oggetti, shape, etichette, sx, sy)

\* ------------------------------------------------------------------ state
VARIABLES
    pc,                 \* position of main
    files,              \* which of the model and labels files exist, one of FileStates
    file_etichette,     \* the labels file, one of LabelFiles
    camera,             \* the attached capture device, one of Devices
    res,                \* frame size the camera is set to
    res_iniziale,       \* history: the frame size the camera reported when it was opened
    cap,                \* "closed", "open", "released"
    finestre,           \* "none", "shown", "destroyed"
    etichette,          \* the labels dict, None before it is loaded
    input_size,         \* common.input_size(interpreter)
    default_res,        \* trova_risoluzioni_supportate: default_res
    risoluzioni,        \* risoluzioni_supportate / risoluzioni_trovate
    i,                  \* trova_risoluzioni_supportate: position in risoluzioni_da_testare
    echo,               \* history: what the camera reported after each candidate was requested
    scelta_str,         \* chiedi_risoluzione_utente: the last line read
    evento,             \* history: how the last input() call ended: "none", "line", "interrupt", "eof"
    risoluzione_scelta, \* result of chiedi_risoluzione_utente
    nativo,             \* <<width_nativo, height_nativo>>
    scale_x, scale_y,
    debug_mode,
    frame_nativo,       \* shape <<height, width>> of the frame read
    oggetti,
    soglia_attuale,
    disegno,            \* what disegna_risultati did for the current frame
    key,
    esito_imwrite,      \* history: "none", or how cv2.imwrite ended: "written", "false", "raised"
    stampa,             \* history: what the key handler printed, "none" if nothing
    testo_webcam,       \* the frame size written into the overlay of the frame, None before
    \* setup.py
    pc_setup,           \* position of setup.py's main, "fermo" while setup.py is not run
    in_venv,            \* what check_venv returns
    reqs_presente,      \* requirements.txt exists
    esito_pip,          \* how subprocess.run of pip ends: "ok", "CalledProcessError", "FileNotFoundError"
    cartella,           \* the folder modelli: "presente", "assente", or "negata" (makedirs raises)
    modello_presente,   \* the model file exists when setup.py starts
    etichette_presenti, \* the labels file exists when setup.py starts
    url_modello,        \* urlretrieve of the model succeeds
    url_etichette,      \* urlretrieve of the labels succeeds
    successo,           \* scarica_file_modello: successo
    exit_status,        \* exit status of the process, -1 while it runs
    fasi,               \* history: the phases started, in order
    tentati,            \* history: the downloads attempted, in order
    scaricati           \* history: the files downloaded

devVars   == <<camera, res, res_iniziale, cap, finestre>>
probeVars == <<default_res, risoluzioni, i, echo>>
selVars   == <<scelta_str, evento, risoluzione_scelta>>
fsVars    == <<files, file_etichette>>
sessVars  == <<etichette, input_size, nativo, scale_x, scale_y, debug_mode>>
frameVars == <<frame_nativo, oggetti, soglia_attuale, disegno, key, esito_imwrite, stampa,
               testo_webcam>>
setupEnv  == <<in_venv, reqs_presente, esito_pip, cartella, modello_presente, etichette_presenti,
               url_modello, url_etichette>>
setupVars == <<pc_setup, setupEnv, successo, exit_status, fasi, tentati, scaricati>>
mainVars  == <<pc, fsVars, devVars, probeVars, selVars, sessVars, frameVars>>
vars      == <<mainVars, setupVars>>

NoEcho == [k \in 1..Len(risoluzioni_da_testare) |-> None]

\* The machines main is started on: files, labels file and camera.  The
\* labels and the camera have no effect on each other, so the empty labels
\* file is looked at with the cameras of one mode only.
Installazioni ==
    { inst \in [files : FileStates, file_etichette : LabelFiles, camera : Devices] :
          (inst.file_etichette.leggibile /\ inst.file_etichette.lines = <<>>)
              => Cardinality(inst.camera.modes) = 1 }

\* main.py starts on the installation inst
AvvioMain(inst) ==
    /\ pc = "check_prerequisiti"
    /\ files = inst.files
    /\ file_etichette = inst.file_etichette
    /\ camera = inst.camera
    /\ res = inst.camera.start
    /\ res_iniziale = CapGet(inst.camera, inst.camera.start)
    /\ cap = "closed"
    /\ finestre = "none"
    /\ etichette = None
    /\ input_size = None
    /\ default_res = None
    /\ risoluzioni = <<>>
    /\ i = 1
    /\ echo = NoEcho
    /\ scelta_str = Unset
    /\ evento = "none"
    /\ risoluzione_scelta = None
    /\ nativo = None
    /\ scale_x = None
    /\ scale_y = None
    /\ debug_mode = FALSE
    /\ frame_nativo = None
    /\ oggetti = <<>>
    /\ soglia_attuale = 0
    /\ disegno = NessunDisegno
    /\ key = 0 - 1
    /\ esito_imwrite = "none"
    /\ stampa = "none"
    /\ testo_webcam = None

\* The machines setup.py is started on.  Without the folder modelli there
\* are no files in it.
AmbientiSetup ==
    { env \in [in_venv : BOOLEAN, reqs_presente : BOOLEAN,
               esito_pip : {"ok", "CalledProcessError", "FileNotFoundError"},
               cartella : {"presente", "assente", "negata"},
               modello_presente : BOOLEAN, etichette_presenti : BOOLEAN,
               url_modello : BOOLEAN, url_etichette : BOOLEAN] :
          env.cartella # "presente" => (~ env.modello_presente /\ ~ env.etichette_presenti) }

\* setup.py on the machine env, at position p
AvvioSetup(env, p) ==
    /\ pc_setup = p
    /\ in_venv = env.in_venv
    /\ reqs_presente = env.reqs_presente
    /\ esito_pip = env.esito_pip
    /\ cartella = env.cartella
    /\ modello_presente = env.modello_presente
    /\ etichette_presenti = env.etichette_presenti
    /\ url_modello = env.url_modello
    /\ url_etichette = env.url_etichette
    /\ successo = TRUE
    /\ exit_status = 0 - 1
    /\ fasi = <<>>
    /\ tentati = <<>>
    /\ scaricati = {}

\* the machine on which setup.py has nothing left to do
AmbientePronto ==
    [in_venv |-> TRUE, reqs_presente |-> TRUE, esito_pip |-> "ok", cartella |-> "presente",
     modello_presente |-> TRUE, etichette_presenti |-> TRUE, url_modello |-> TRUE, url_etichette |-> TRUE]

Init ==
    /\ \E inst \in Installazioni : AvvioMain(inst)
    /\ AvvioSetup(AmbientePronto, "fermo")

\* ---------------------------------------------------------------- startup
\* check_prerequisiti, main.py:202-212
PrerequisitiOk(f) == f # "no_model" /\ f # "no_labels"

\* main.py:334-337
CheckPrerequisiti ==
    /\ pc = "check_prerequisiti"
    /\ pc' = IF PrerequisitiOk(files) THEN "carica_etichette" ELSE "done"
    /\ UNCHANGED <<setupVars, fsVars, devVars, probeVars, selVars, sessVars, frameVars>>

\* carica_etichette, main.py:108-121
carica_etichette(f) == IF f.leggibile THEN Etichette(f.lines) ELSE None

\* variant: main goes on whatever carica_etichette returned
CaricaEtichette_prosegue ==
    /\ pc = "carica_etichette"
    /\ etichette' = carica_etichette(file_etichette)
    /\ pc' = "make_interpreter"
    /\ UNCHANGED <<setupVars, fsVars, devVars, probeVars, selVars, input_size, nativo, scale_x, scale_y,
                   debug_mode, frameVars>>

\* main.py:339-342
CaricaEtichette ==
    /\ pc = "carica_etichette"
    /\ etichette' = carica_etichette(file_etichette)
    /\ pc' = IF etichette' = None THEN "done" ELSE "make_interpreter"
    /\ UNCHANGED <<setupVars, fsVars, devVars, probeVars, selVars, input_size, nativo, scale_x, scale_y,
                   debug_mode, frameVars>>

\* main.py:345-359
MakeInterpreter ==
    /\ pc = "make_interpreter"
    /\ \/ /\ pc' = "done"                      \* except branch, main.py:352-356
          /\ UNCHANGED input_size
       \/ /\ \E m \in InputSizes : input_size' = m
          /\ pc' = "video_capture"
    /\ UNCHANGED <<setupVars, fsVars, devVars, probeVars, selVars, etichette, nativo, scale_x, scale_y, debug_mode, frameVars>>

\* main.py:364-368
VideoCapture ==
    /\ pc = "video_capture"
    /\ \/ /\ cap' = "open"
          /\ pc' = "trova_risoluzioni"
       \/ /\ cap' = "closed"                   \* not cap.isOpened()
          /\ pc' = "done"
    /\ UNCHANGED <<setupVars, fsVars, camera, res, res_iniziale, finestre, probeVars, selVars, sessVars, frameVars>>


\* --------------------------------------------- trova_risoluzioni_supportate
\* variant: the list starts with the first candidate instead of the default
TrovaInizio_primo ==
    /\ pc = "trova_risoluzioni"
    /\ default_res' = res
    /\ risoluzioni' = <<risoluzioni_da_testare[1]>>
    /\ i' = 1
    /\ echo' = NoEcho
    /\ pc' = "trova_loop"
    /\ UNCHANGED <<setupVars, fsVars, devVars, selVars, sessVars, frameVars>>

\* main.py:228-242
TrovaInizio ==
    /\ pc = "trova_risoluzioni"
    /\ default_res' = CapGet(camera, res)
    /\ risoluzioni' = <<CapGet(camera, res)>>
    /\ i' = 1
    /\ echo' = NoEcho
    /\ pc' = "trova_loop"
    /\ UNCHANGED <<setupVars, fsVars, devVars, selVars, sessVars, frameVars>>

\* variant: only the width is compared
EchoUguale_larghezza(actual, w, h) == actual[1] = w

\* the test of main.py:258
EchoUguale(actual, w, h) == actual[1] = w /\ actual[2] = h

\* main.py:259-260
Aggiungi(lista, r) == IF \E k \in 1..Len(lista) : lista[k] = r THEN lista ELSE Append(lista, r)

\* one pass of the for loop, main.py:245-260
TrovaProva ==
    /\ pc = "trova_loop"
    /\ i <= Len(risoluzioni_da_testare)
    /\ LET w == risoluzioni_da_testare[i][1]
           h == risoluzioni_da_testare[i][2]
       IN  IF <<w, h>> = default_res
           THEN UNCHANGED <<res, risoluzioni, echo>>
           ELSE \E r \in CapSetSize(camera, res, w, h) :
                   LET actual == CapGet(camera, r)
                   IN  /\ res' = r
                       /\ echo' = [echo EXCEPT ![i] = actual]
                       /\ risoluzioni' = IF EchoUguale(actual, w, h)
                                         THEN Aggiungi(risoluzioni, <<w, h>>)
                                         ELSE risoluzioni
    /\ i' = i + 1
    /\ UNCHANGED <<setupVars, fsVars, pc, camera, res_iniziale, cap, finestre, default_res, selVars, sessVars, frameVars>>

\* main.py:262-267
TrovaRipristina ==
    /\ pc = "trova_loop"
    /\ i > Len(risoluzioni_da_testare)
    /\ \E r \in CapSetSize(camera, res, default_res[1], default_res[2]) : res' = r
    /\ pc' = "chiedi_risoluzione"
    /\ UNCHANGED <<setupVars, fsVars, camera, res_iniziale, cap, finestre, probeVars, selVars, sessVars, frameVars>>

\* ------------------------------------------------ chiedi_risoluzione_utente
\* variant: a single candidate is put to the user as well
ChiediInizio_chiede ==
    /\ pc = "chiedi_risoluzione"
    /\ IF Len(risoluzioni) = 0
       THEN risoluzione_scelta' = None /\ pc' = "scelta_fatta"
       ELSE risoluzione_scelta' = None /\ pc' = "prompt"
    /\ default_res' = None
    /\ i' = 1
    /\ echo' = NoEcho
    /\ UNCHANGED <<setupVars, fsVars, devVars, risoluzioni, scelta_str, evento, sessVars, frameVars>>

\* main.py:374 and main.py:282-298; the locals of the probe are gone
ChiediInizio ==
    /\ pc = "chiedi_risoluzione"
    /\ IF Len(risoluzioni) = 0
       THEN risoluzione_scelta' = None /\ pc' = "scelta_fatta"
       ELSE IF Len(risoluzioni) = 1
       THEN risoluzione_scelta' = risoluzioni[1] /\ pc' = "scelta_fatta"
       ELSE risoluzione_scelta' = None /\ pc' = "prompt"
    /\ default_res' = None
    /\ i' = 1
    /\ echo' = NoEcho
    /\ UNCHANGED <<setupVars, fsVars, devVars, risoluzioni, scelta_str, evento, sessVars, frameVars>>

\* variant: the lower limit off by one
SceltaValida_zero(n, lista) == 0 <= n /\ n <= Len(lista)

\* the test of main.py:310
SceltaValida(n, lista) == 1 <= n /\ n <= Len(lista)

\* variant: risoluzioni[scelta_int - 2]
Elemento_prima(lista, n) == IF n >= 2 THEN lista[n - 1] ELSE lista[Len(lista) + n - 1]

\* risoluzioni[scelta_int - 1], main.py:311: Python counts from 0 and
\* a negative index counts from the end
Elemento(lista, n) == IF n >= 1 THEN lista[n] ELSE lista[Len(lista) + n]

\* one pass of the while loop in which input() returns a line, main.py:300-315
PromptLinea ==
    /\ pc = "prompt"
    /\ \E line \in Lines :
          /\ scelta_str' = line
          /\ evento' = "line"
          /\ IF line = <<>>
             THEN risoluzione_scelta' = risoluzioni[1] /\ pc' = "scelta_fatta"
             ELSE LET scelta_int == ParseInt(line)
                  IN  IF scelta_int.ok /\ SceltaValida(scelta_int.val, risoluzioni)
                      THEN risoluzione_scelta' = Elemento(risoluzioni, scelta_int.val) /\ pc' = "scelta_fatta"
                      ELSE UNCHANGED <<risoluzione_scelta, pc>>
    /\ UNCHANGED <<setupVars, fsVars, devVars, probeVars, sessVars, frameVars>>

\* input() raises KeyboardInterrupt, main.py:316-318
PromptInterrotto ==
    /\ pc = "prompt"
    /\ evento' = "interrupt"
    /\ risoluzione_scelta' = None
    /\ pc' = "scelta_fatta"
    /\ UNCHANGED <<setupVars, fsVars, devVars, probeVars, scelta_str, sessVars, frameVars>>

\* input() raises EOFError, which no except clause of main.py:314-318 names
PromptEOF ==
    /\ pc = "prompt"
    /\ evento' = "eof"
    /\ pc' = "crashed"
    /\ UNCHANGED <<setupVars, fsVars, devVars, probeVars, scelta_str, risoluzione_scelta, sessVars, frameVars>>

\* variant: return without cap.release()
SceltaAnnullata_senza ==
    /\ pc = "scelta_fatta"
    /\ risoluzione_scelta = None
    /\ pc' = "done"
    /\ UNCHANGED <<setupVars, fsVars, devVars, probeVars, selVars, sessVars, frameVars>>

\* main.py:375-377
SceltaAnnullata ==
    /\ pc = "scelta_fatta"
    /\ risoluzione_scelta = None
    /\ cap' = "released"
    /\ pc' = "done"
    /\ UNCHANGED <<setupVars, fsVars, camera, res, res_iniziale, finestre, probeVars, selVars, sessVars, frameVars>>

\* variant: the chosen candidate is taken for the native size
ApplicaRisoluzione_scelta ==
    /\ pc = "scelta_fatta"
    /\ risoluzione_scelta # None
    /\ \E r \in CapSetSize(camera, res, risoluzione_scelta[1], risoluzione_scelta[2]) :
          /\ res' = r
          /\ nativo' = risoluzione_scelta
    /\ scelta_str' = Unset
    /\ evento' = "none"
    /\ pc' = "fattori_di_scala"
    /\ UNCHANGED <<setupVars, fsVars, camera, res_iniziale, cap, finestre, probeVars, risoluzione_scelta,
                   etichette, input_size, scale_x, scale_y, debug_mode, frameVars>>

\* main.py:379-386
ApplicaRisoluzione ==
    /\ pc = "scelta_fatta"
    /\ risoluzione_scelta # None
    /\ \E r \in CapSetSize(camera, res, risoluzione_scelta[1], risoluzione_scelta[2]) :
          /\ res' = r
          /\ nativo' = CapGet(camera, r)
    /\ scelta_str' = Unset
    /\ evento' = "none"
    /\ pc' = "fattori_di_scala"
    /\ UNCHANGED <<setupVars, fsVars, camera, res_iniziale, cap, finestre, probeVars, risoluzione_scelta,
                   etichette, input_size, scale_x, scale_y, debug_mode, frameVars>>

\* main.py:390-399
FattoriDiScala ==
    /\ pc = "fattori_di_scala"
    /\ scale_x' = TrueDiv(nativo[1], input_size[1])
    /\ scale_y' = TrueDiv(nativo[2], input_size[2])
    /\ debug_mode' = FALSE
    /\ pc' = "while"
    /\ UNCHANGED <<setupVars, fsVars, devVars, probeVars, selVars, etichette, input_size, nativo, frameVars>>


\* --------------------------------------------------------- the frame loop
\* values cv2.waitKey(1) returns: no key, q, s, d, x, and q with a modifier bit
RawKeys == {0 - 1, 113, 115, 100, 120, 1048689}

\* ord('q'), ord('s'), ord('d'), main.py:471, 475, 480
OrdQ == 113
OrdS == 115
OrdD == 100

\* k & 0xFF, main.py:469
Mask0xFF(k) == k % 256

\* variant: the factors are computed again for every frame
While_riscala ==
    /\ pc = "while"
    /\ pc' = IF cap = "open" THEN "read" ELSE "rilascio"
    /\ frame_nativo' = None
    /\ oggetti' = <<>>
    /\ soglia_attuale' = 0
    /\ disegno' = NessunDisegno
    /\ key' = 0 - 1
    /\ esito_imwrite' = "none"
    /\ stampa' = "none"
    /\ testo_webcam' = None
    /\ scale_x' = TrueDiv(res[1], input_size[1])
    /\ scale_y' = TrueDiv(res[2], input_size[2])
    /\ UNCHANGED <<setupVars, fsVars, devVars, probeVars, selVars, etichette, input_size, nativo, debug_mode>>

\* main.py:408; what the previous pass left in its frame variables is
\* overwritten before it is read again, so the pass starts without it
While ==
    /\ pc = "while"
    /\ pc' = IF cap = "open" THEN "read" ELSE "rilascio"
    /\ frame_nativo' = None
    /\ oggetti' = <<>>
    /\ soglia_attuale' = 0
    /\ disegno' = NessunDisegno
    /\ key' = 0 - 1
    /\ esito_imwrite' = "none"
    /\ stampa' = "none"
    /\ testo_webcam' = None
    /\ UNCHANGED <<setupVars, fsVars, devVars, probeVars, selVars, sessVars>>

\* variant: a failed read skips the frame and the loop goes on
Read_continua ==
    /\ pc = "read"
    /\ \E ret \in BOOLEAN :
          IF ret
          THEN /\ frame_nativo' = <<res[2], res[1]>>
               /\ pc' = "inferenza"
          ELSE /\ frame_nativo' = None
               /\ pc' = "while"
    /\ UNCHANGED <<setupVars, fsVars, devVars, probeVars, selVars, sessVars, oggetti, soglia_attuale, disegno, key,
                   esito_imwrite, stampa, testo_webcam>>

\* main.py:411-417
Read ==
    /\ pc = "read"
    /\ \E ret \in BOOLEAN :
          IF ret
          THEN /\ frame_nativo' = <<res[2], res[1]>>
               /\ pc' = "inferenza"
          ELSE /\ frame_nativo' = None
               /\ pc' = "rilascio"
    /\ UNCHANGED <<setupVars, fsVars, devVars, probeVars, selVars, sessVars, oggetti, soglia_attuale, disegno, key,
                   esito_imwrite, stampa, testo_webcam>>

\* variant: after the inference the next frame is read at once
Inferenza_ripete ==
    /\ pc = "inferenza"
    /\ \E raised \in BOOLEAN : pc' = IF raised THEN "crashed" ELSE "read"
    /\ UNCHANGED <<setupVars, fsVars, devVars, probeVars, selVars, sessVars, frameVars>>

\* main.py:419-429: cvtColor, resize, set_input, invoke; any of them may raise
Inferenza ==
    /\ pc = "inferenza"
    /\ \E raised \in BOOLEAN : pc' = IF raised THEN "crashed" ELSE "get_objects"
    /\ UNCHANGED <<setupVars, fsVars, devVars, probeVars, selVars, sessVars, frameVars>>

\* variant: the two thresholds exchanged
Soglia_inversa(debug) == IF debug THEN SOGLIA_CONFIDENZA_DEFAULT ELSE SOGLIA_CONFIDENZA_DEBUG

\* main.py:432
Soglia(debug) == IF debug THEN SOGLIA_CONFIDENZA_DEBUG ELSE SOGLIA_CONFIDENZA_DEFAULT

\* main.py:431-434
GetObjects ==
    /\ pc = "get_objects"
    /\ soglia_attuale' = Soglia(debug_mode)
    /\ \E uscita \in SeqsUpTo(Detections(input_size), MaxDet) :
          oggetti' = GetObjectsOf(uscita, soglia_attuale')
    /\ pc' = "disegna"
    /\ UNCHANGED <<setupVars, fsVars, devVars, probeVars, selVars, sessVars, frame_nativo, disegno, key,
                   esito_imwrite, stampa, testo_webcam>>

\* main.py:436-440
Disegna ==
    /\ pc = "disegna"
    /\ disegno' = disegna_risultati(frame_nativo, oggetti, etichette, scale_x, scale_y)
    /\ pc' = "imshow"
    /\ UNCHANGED <<setupVars, fsVars, devVars, probeVars, selVars, sessVars, frame_nativo, oggetti,
                   soglia_attuale, key, esito_imwrite, stampa, testo_webcam>>

\* main.py:442-464: overlay and cv2.imshow, which raises without a display
Mostra ==
    /\ pc = "imshow"
    /\ testo_webcam' = nativo
    /\ \E raised \in BOOLEAN :
          IF raised
          THEN pc' = "crashed" /\ UNCHANGED finestre
          ELSE pc' = "waitKey" /\ finestre' = "shown"
    /\ UNCHANGED <<setupVars, fsVars, camera, res, res_iniziale, cap, probeVars, selVars, sessVars,
                   frame_nativo, oggetti, soglia_attuale, disegno, key, esito_imwrite, stampa>>

\* main.py:466-482; imwrite either writes the file, returns False or raises
WaitKey ==
    /\ pc = "waitKey"
    /\ \E k \in RawKeys :
          /\ key' = Mask0xFF(k)
          /\ IF key' = OrdQ
             THEN /\ pc' = "rilascio"
                  /\ stampa' = "Tasto 'q' premuto"
                  /\ UNCHANGED <<debug_mode, esito_imwrite>>
             ELSE IF key' = OrdS
             THEN /\ \E imwrite \in {"written", "false", "raised"} :
                        /\ esito_imwrite' = imwrite
                        /\ pc' = IF imwrite = "raised" THEN "crashed" ELSE "while"
                        /\ stampa' = IF imwrite = "raised" THEN "none" ELSE "Screenshot salvato"
                  /\ UNCHANGED debug_mode
             ELSE IF key' = OrdD
             THEN /\ pc' = "while"
                  /\ debug_mode' = ~ debug_mode
                  /\ stampa' = "DEBUG"
                  /\ UNCHANGED esito_imwrite
             ELSE /\ pc' = "while"
                  /\ UNCHANGED <<debug_mode, esito_imwrite, stampa>>
    /\ UNCHANGED <<setupVars, fsVars, devVars, probeVars, selVars, etichette, input_size, nativo, scale_x, scale_y,
                   frame_nativo, oggetti, soglia_attuale, disegno, testo_webcam>>

\* main.py:484-489
Rilascio ==
    /\ pc = "rilascio"
    /\ cap' = "released"
    /\ finestre' = "destroyed"
    /\ pc' = "done"
    /\ UNCHANGED <<setupVars, fsVars, camera, res, res_iniziale, probeVars, selVars, sessVars, frameVars>>

Next ==
    \/ CheckPrerequisiti
    \/ CaricaEtichette
    \/ MakeInterpreter
    \/ VideoCapture
    \/ TrovaInizio
    \/ TrovaProva
    \/ TrovaRipristina
    \/ ChiediInizio
    \/ PromptLinea
    \/ PromptInterrotto
    \/ PromptEOF
    \/ SceltaAnnullata
    \/ ApplicaRisoluzione
    \/ FattoriDiScala
    \/ While
    \/ Read
    \/ Inferenza
    \/ GetObjects
    \/ Disegna
    \/ Mostra
    \/ WaitKey
    \/ Rilascio

Spec == Init /\ [][Next]_vars


\* ---------------------------------------------------------------- setup.py
\* installa_dipendenze, setup.py:55-84
installa_dipendenze(reqs, pip) == reqs /\ pip = "ok"

\* FASE 1, setup.py:140-148
CheckVenv ==
    /\ pc_setup = "check_venv"
    /\ fasi' = Append(fasi, 1)
    /\ IF in_venv
       THEN pc_setup' = "installa_dipendenze" /\ UNCHANGED exit_status
       ELSE pc_setup' = "exited" /\ exit_status' = 1
    /\ UNCHANGED <<mainVars, setupEnv, successo, tentati, scaricati>>

\* FASE 2, setup.py:150-156
InstallaDipendenze ==
    /\ pc_setup = "installa_dipendenze"
    /\ fasi' = Append(fasi, 2)
    /\ IF installa_dipendenze(reqs_presente, esito_pip)
       THEN pc_setup' = "scarica_file_modello" /\ UNCHANGED exit_status
       ELSE pc_setup' = "exited" /\ exit_status' = 1
    /\ UNCHANGED <<mainVars, setupEnv, successo, tentati, scaricati>>

\* FASE 3 begins, setup.py:158-160 and 92-104; an exception of os.makedirs is
\* caught nowhere and ends the interpreter with status 1
CreaCartella ==
    /\ pc_setup = "scarica_file_modello"
    /\ fasi' = Append(fasi, 3)
    /\ successo' = TRUE
    /\ IF cartella = "negata"
       THEN pc_setup' = "exited" /\ exit_status' = 1 /\ UNCHANGED cartella
       ELSE pc_setup' = "scarica_modello" /\ cartella' = "presente" /\ UNCHANGED exit_status
    /\ UNCHANGED <<mainVars, in_venv, reqs_presente, esito_pip, modello_presente, etichette_presenti,
                   url_modello, url_etichette, tentati, scaricati>>

\* variant: a failed model download ends the phase at once
ScaricaModello_interrompe ==
    /\ pc_setup = "scarica_modello"
    /\ IF modello_presente
       THEN pc_setup' = "scarica_etichette" /\ UNCHANGED <<tentati, scaricati, successo>>
       ELSE /\ tentati' = Append(tentati, "modello")
            /\ IF url_modello
               THEN pc_setup' = "scarica_etichette" /\ scaricati' = scaricati \cup {"modello"}
                    /\ UNCHANGED successo
               ELSE pc_setup' = "fine" /\ successo' = FALSE /\ UNCHANGED scaricati
    /\ UNCHANGED <<mainVars, setupEnv, exit_status, fasi>>

\* setup.py:106-116
ScaricaModello ==
    /\ pc_setup = "scarica_modello"
    /\ IF modello_presente
       THEN UNCHANGED <<tentati, scaricati, successo>>
       ELSE /\ tentati' = Append(tentati, "modello")
            /\ IF url_modello
               THEN scaricati' = scaricati \cup {"modello"} /\ UNCHANGED successo
               ELSE successo' = FALSE /\ UNCHANGED scaricati
    /\ pc_setup' = "scarica_etichette"
    /\ UNCHANGED <<mainVars, setupEnv, exit_status, fasi>>

\* setup.py:118-128
ScaricaEtichette ==
    /\ pc_setup = "scarica_etichette"
    /\ IF etichette_presenti
       THEN UNCHANGED <<tentati, scaricati, successo>>
       ELSE /\ tentati' = Append(tentati, "etichette")
            /\ IF url_etichette
               THEN scaricati' = scaricati \cup {"etichette"} /\ UNCHANGED successo
               ELSE successo' = FALSE /\ UNCHANGED scaricati
    /\ pc_setup' = "fine"
    /\ UNCHANGED <<mainVars, setupEnv, exit_status, fasi>>

\* setup.py:130 and 160-171: return successo, then sys.exit(1) or the end of main
FineSetup ==
    /\ pc_setup = "fine"
    /\ exit_status' = IF successo THEN 0 ELSE 1
    /\ pc_setup' = "exited"
    /\ UNCHANGED <<mainVars, setupEnv, successo, fasi, tentati, scaricati>>

SetupInit ==
    /\ AvvioMain(CHOOSE inst \in Installazioni : TRUE)
    /\ \E env \in AmbientiSetup : AvvioSetup(env, "check_venv")

SetupNext ==
    \/ CheckVenv
    \/ InstallaDipendenze
    \/ CreaCartella
    \/ ScaricaModello
    \/ ScaricaEtichette
    \/ FineSetup

SetupSpec == SetupInit /\ [][SetupNext]_vars


\* ================================================================ claims
InLista(lista, r) == \E k \in 1..Len(lista) : lista[k] = r

\* the sizes a native axis and a model axis can have
AssiNativi  == {0} \cup UNION { { r[1], r[2] } : r \in UNION { d.modes : d \in Devices } }
AssiModello == UNION { { M[1], M[2] } : M \in InputSizes }

\* int() of x remapped from a model axis of size m to a native axis of size
\* n, for every x from -1 to m + 1
TroncaTab ==
    [n \in AssiNativi, m \in AssiModello |->
        [x \in (0 - 1)..(m + 1) |-> ToInt(MulFrac(x, TrueDiv(n, m)))]]

Tronca(x, n, m) == TroncaTab[n, m][x]

\* the fraction q, q >= 0, in hundredths, rounded to the nearest
Centesimi(q) == (200 * q[1] + q[2]) \div (2 * q[2])

Scalate == { disegno.scalate[j] : j \in 1..Len(disegno.scalate) }
Disegnato(k) == \E j \in 1..Len(disegno.disegnati) : disegno.disegnati[j].k = k

\* the object at position k passes the test on its truncated coordinates
NeiLimiti(k) ==
    LET b == oggetti[k].bbox
    IN  /\ Tronca(b[1], nativo[1], input_size[1]) >= 0
        /\ Tronca(b[2], nativo[2], input_size[2]) >= 0
        /\ Tronca(b[3], nativo[1], input_size[1]) <= nativo[1]
        /\ Tronca(b[4], nativo[2], input_size[2]) <= nativo[2]

\* C1: the scale factors are N.w / M.w and N.h / M.h (as the double nearest
\* to the quotient: off by at most half a unit in the last place), every box is
\* remapped by x * scaleX on both x-coordinates and y * scaleY on both
\* y-coordinates, and for N = 1280x720, M = 300x300 the box (20,10)-(60,50)
\* becomes (85.33, 24.0)-(256.0, 120.0).
C1_ScaleAndRemap ==
    /\ scale_x # None =>
          /\ scale_x[1] * input_size[1] = nativo[1] * scale_x[2]
          /\ scale_y[1] * input_size[2] = nativo[2] * scale_y[2]
          /\ 0 - scale_x[2] <= 2 * scale_x[3] /\ 2 * scale_x[3] <= scale_x[2]
          /\ 0 - scale_y[2] <= 2 * scale_y[3] /\ 2 * scale_y[3] <= scale_y[2]
    /\ \A e \in Scalate :
          LET b == oggetti[e.k].bbox
          IN  /\ e.bbox[1][1] * input_size[1] = b[1] * nativo[1] * e.bbox[1][2]
              /\ e.bbox[3][1] * input_size[1] = b[3] * nativo[1] * e.bbox[3][2]
              /\ e.bbox[2][1] * input_size[2] = b[2] * nativo[2] * e.bbox[2][2]
              /\ e.bbox[4][1] * input_size[2] = b[4] * nativo[2] * e.bbox[4][2]
              /\ (nativo = <<1280, 720>> /\ input_size = <<300, 300>> /\ b = <<20, 10, 60, 50>>)
                    => << Centesimi(e.bbox[1]), Centesimi(e.bbox[2]),
                          Centesimi(e.bbox[3]), Centesimi(e.bbox[4]) >> = <<8533, 2400, 25600, 12000>>

C1_Witness ==
    /\ pc = "imshow"
    /\ nativo = <<1280, 720>>
    /\ input_size = <<300, 300>>
    /\ \E e \in Scalate : oggetti[e.k].bbox = <<20, 10, 60, 50>>

C3_OnlyFailingSkipped ==
    pc = "imshow" =>
        \A k \in 1..Len(oggetti) :
            (oggetti[k].err = "none" /\ NeiLimiti(k)) => Disegnato(k)

\* C4: once the frame loop has been entered, main never ends without having
\* released the capture handle and destroyed the windows.
C4_CleanupOnEveryExit ==
    (pc \in {"done", "crashed"} /\ scale_x # None) =>
        (cap = "released" /\ finestre = "destroyed")

\* C5: when trova_risoluzioni_supportate returns, the camera is set to the
\* resolution it reported before probing began.
C5_DefaultRestored ==
    pc = "chiedi_risoluzione" => CapGet(camera, res) = res_iniziale

\* C6: a candidate other than the default is in the probe result exactly
\* when the camera echoed that width and height after it was requested; the
\* result has no duplicate and its non-default entries keep the order of
\* the priority list.
C6_ProbeResult ==
    pc \in {"trova_loop", "chiedi_risoluzione"} =>
        /\ \A k \in 1..Len(risoluzioni_da_testare) :
              risoluzioni_da_testare[k] # res_iniziale =>
                  (InLista(risoluzioni, risoluzioni_da_testare[k])
                      <=> (k < i /\ echo[k] = risoluzioni_da_testare[k]))
        /\ \A a, b \in 1..Len(risoluzioni) : a # b => risoluzioni[a] # risoluzioni[b]
        /\ \A a, b \in 2..Len(risoluzioni) :
              a < b => \E ka, kb \in 1..Len(risoluzioni_da_testare) :
                          /\ ka < kb
                          /\ risoluzioni_da_testare[ka] = risoluzioni[a]
                          /\ risoluzioni_da_testare[kb] = risoluzioni[b]

C6_Witness ==
    /\ pc = "chiedi_risoluzione"
    /\ Len(risoluzioni) >= 3
    /\ \E k \in 1..Len(risoluzioni_da_testare) :
          echo[k] # None /\ echo[k] # risoluzioni_da_testare[k]

\* C7: the probe result is never empty and its first element is the
\* resolution the camera reported before any set request.
C7_DefaultFirst ==
    /\ pc \in {"trova_loop", "chiedi_risoluzione"} => risoluzioni # <<>>
    /\ risoluzioni # <<>> => risoluzioni[1] = res_iniziale

C7_Witness ==
    /\ pc = "chiedi_risoluzione"
    /\ res_iniziale # risoluzioni_da_testare[1]
    /\ InLista(risoluzioni, risoluzioni_da_testare[1])

\* the line, blanks at both ends and leading zeros aside, is the numeral of k
CifreDi == <<"1", "2", "3">>
Denota(line, k) ==
    /\ k \in 1..Len(CifreDi)
    /\ \E a, z \in 0..Len(line) :
          /\ a + z + 1 <= Len(line)
          /\ \A p \in 1..a : line[p] = " "
          /\ \A p \in (a + 1)..(a + z) : line[p] = "0"
          /\ line[a + z + 1] = CifreDi[k]
          /\ \A p \in (a + z + 2)..Len(line) : line[p] = " "

LineaValida(line, n) == line = <<>> \/ \E k \in 1..n : Denota(line, k)

\* C8: with two or more candidates the selector returns the first candidate
\* on an empty line and the k-th candidate on a line that is a number k in
\* 1..n; whatever it returns other than None is one of the candidates.
C8_SelectorResult ==
    (pc = "scelta_fatta" /\ Len(risoluzioni) >= 2) =>
        /\ (evento = "line" /\ scelta_str = <<>>) => risoluzione_scelta = risoluzioni[1]
        /\ \A k \in 1..Len(risoluzioni) :
              (evento = "line" /\ Denota(scelta_str, k)) => risoluzione_scelta = risoluzioni[k]
        /\ risoluzione_scelta # None => InLista(risoluzioni, risoluzione_scelta)

C8_Witness ==
    /\ pc = "scelta_fatta"
    /\ evento = "line"
    /\ scelta_str = <<" ", "2">>
    /\ risoluzione_scelta = risoluzioni[2]
    /\ risoluzioni[2] # risoluzioni[1]

\* C9: a line that is neither empty nor a number in 1..n never yields a
\* resolution: the selector is at its prompt again afterwards; it returns a
\* resolution only on an empty line or a valid index.
C9_InvalidReprompts ==
    /\ (evento = "line" /\ ~ LineaValida(scelta_str, Len(risoluzioni))) =>
          (pc = "prompt" /\ risoluzione_scelta = None)
    /\ (pc = "scelta_fatta" /\ Len(risoluzioni) >= 2 /\ risoluzione_scelta # None) =>
          (evento = "line" /\ LineaValida(scelta_str, Len(risoluzioni)))

C9_Witness ==
    /\ pc = "prompt"
    /\ evento = "line"
    /\ scelta_str \in { <<"0">>, <<"-", "1">>, <<"a">>, <<" ">>, <<"3">> }

\* C10: an interrupt at a prompt ends the selection with None; main then
\* releases the camera and ends: no resolution is requested, no scale factor
\* is computed and the frame loop is not entered.
C10_CancelReleases ==
    [][ /\ (evento' = "interrupt" /\ evento # "interrupt") =>
              (pc = "prompt" /\ pc' = "scelta_fatta" /\ risoluzione_scelta' = None /\ cap' = "open")
        /\ evento = "interrupt" =>
              /\ pc = "scelta_fatta" /\ pc' = "done"
              /\ cap' = "released"
              /\ res' = res
              /\ nativo' = None /\ scale_x' = None /\ scale_y' = None
              /\ finestre' = "none" ]_vars

C10_Witness ==
    /\ evento = "interrupt"
    /\ pc = "done"
    /\ cap = "released"
    /\ scelta_str = <<"0">>

C12_ReadFailureEnds ==
    [][ /\ (pc = "read" /\ frame_nativo' = None) =>
              /\ pc' = "rilascio"
              /\ oggetti' = <<>> /\ soglia_attuale' = 0
              /\ disegno' = NessunDisegno
              /\ finestre' = finestre
              /\ key' = 0 - 1
              /\ cap' = "open"
        /\ pc = "rilascio" =>
              /\ pc' = "done"
              /\ cap' = "released"
              /\ UNCHANGED frameVars
        /\ pc = "done" => pc' = "done" ]_vars

\* a read failed after an earlier frame was shown, and the cleanup ran
C12_Witness ==
    /\ pc = "done"
    /\ scale_x # None
    /\ frame_nativo = None
    /\ finestre = "destroyed"
    /\ cap = "released"

\* C13: the scale factors are assigned once, after the native resolution was
\* read back and before the first iteration; no step of the loop and no key
\* command changes the scale factors, the native resolution or the labels.
C13_ScaleAssignedOnce ==
    [][ /\ (scale_x' # scale_x \/ scale_y' # scale_y) =>
              /\ pc = "fattori_di_scala" /\ pc' = "while"
              /\ scale_x = None /\ scale_y = None
              /\ nativo # None /\ nativo' = nativo
        /\ pc = "fattori_di_scala" => (scale_x' # None /\ scale_y' # None)
        /\ pc = "read" => (scale_x # None /\ scale_y # None)
        /\ pc \in {"while", "read", "inferenza", "get_objects", "disegna", "imshow", "waitKey",
                   "rilascio"} =>
              /\ scale_x' = scale_x /\ scale_y' = scale_y
              /\ nativo' = nativo
              /\ etichette' = etichette ]_vars

\* the debug key was handled and the factors are the ones computed at start
C13_Witness ==
    /\ pc = "while"
    /\ stampa = "DEBUG"
    /\ debug_mode
    /\ nativo # None
    /\ scale_x = TrueDiv(nativo[1], input_size[1])
    /\ scale_y = TrueDiv(nativo[2], input_size[2])

\* no frame was captured, no detections retrieved, nothing drawn, no window
\* shown, no scale factor computed
NessunaSessione ==
    /\ frame_nativo = None
    /\ oggetti = <<>> /\ soglia_attuale = 0
    /\ disegno = NessunDisegno
    /\ finestre = "none"
    /\ scale_x = None /\ scale_y = None

\* C14: when the model file or the labels file is missing, the labels cannot
\* be loaded, the interpreter cannot be set up, or the camera does not open,
\* main ends at that step: it never enters the loop, captures no frame, runs
\* no inference and shows no window.
C14_AbortBeforeLoop ==
    /\ ~ PrerequisitiOk(files) =>
          (pc \in {"check_prerequisiti", "done"} /\ NessunaSessione /\ cap = "closed")
    /\ ~ file_etichette.leggibile =>
          (pc \in {"check_prerequisiti", "carica_etichette", "done"} /\ NessunaSessione /\ cap = "closed")
    /\ (input_size = None /\ pc \notin {"check_prerequisiti", "carica_etichette", "make_interpreter"}) =>
          (pc = "done" /\ NessunaSessione /\ cap = "closed")
    /\ (cap = "closed" /\ pc \notin {"check_prerequisiti", "carica_etichette", "make_interpreter",
                                     "video_capture"}) =>
          (pc = "done" /\ NessunaSessione)

\* files present but the labels file cannot be read: main has ended
C14_Witness ==
    /\ pc = "done"
    /\ PrerequisitiOk(files)
    /\ ~ file_etichette.leggibile
    /\ etichette = None
    /\ cap = "closed"

\* C15: when writing the screenshot file fails after the screenshot key, a
\* failure is logged and the session goes on: the next step is the next
\* frame (violated: imwrite reports a failed write by returning False, the
\* result is not looked at and the success message is printed).
C15_WriteFailureLogged ==
    esito_imwrite = "false" =>
        /\ pc = "while"
        /\ stampa \notin {"none", "Screenshot salvato"}

\* C16: for every native size N and model input size M with positive
\* components, the box with model-space corners (0,0)-(M.w, M.h) is remapped
\* to exactly (0,0)-(N.w, N.h) (violated: (N/M)*M is computed in doubles and
\* can fall just below N, which int() then truncates to N - 1).
C16_CornersRoundTrip ==
    \A e \in Scalate :
        (oggetti[e.k].bbox = <<0, 0, input_size[1], input_size[2]>> /\ nativo[1] > 0 /\ nativo[2] > 0) =>
            BBoxToInt(e.bbox) = <<0, 0, nativo[1], nativo[2]>>

\* name is line without the white space at its two ends
NomeDellaLinea(name, line) ==
    /\ \E a, b \in SeqsUpTo(Whitespace, Len(line)) : line = a \o name \o b
    /\ name # <<>> => (name[1] \notin Whitespace /\ name[Len(name)] \notin Whitespace)

\* C17: once a labels file of n lines is loaded the table has exactly the
\* class indices 0..n-1 and the name of index i is line i of the file; a
\* drawn detection carries the name of its class index, or the fallback
\* name when the index is not in 0..n-1, and such an index stops nothing:
\* the detection is drawn like any other.
C17_LabelLookup ==
    etichette # None =>
        LET lines == file_etichette.lines
            n     == Len(lines)
        IN  /\ DOMAIN etichette = 0..(n - 1)
            /\ \A c \in 0..(n - 1) : NomeDellaLinea(etichette[c], lines[c + 1])
            /\ pc = "imshow" =>
                  /\ \A j \in 1..Len(disegno.disegnati) :
                        LET d == disegno.disegnati[j]
                            c == oggetti[d.k].id
                        IN  d.nome = IF c \in 0..(n - 1) THEN etichette[c] ELSE <<"Sconosciuto">>
                  /\ (\A k \in 1..Len(oggetti) : oggetti[k].err = "none") =>
                        /\ ~ disegno.errore
                        /\ \A k \in 1..Len(oggetti) :
                              (oggetti[k].bbox = <<20, 10, 60, 50>> /\ nativo[1] > 0) =>
                                  \E j \in 1..Len(disegno.disegnati) : disegno.disegnati[j].k = k

\* a frame with one detection of the last class of a two-line file and one
\* of a class the file does not have, both drawn
C17_Witness ==
    /\ pc = "imshow"
    /\ Len(file_etichette.lines) = 2
    /\ Len(disegno.disegnati) = 2
    /\ oggetti[1].id = 1 /\ disegno.disegnati[1].nome = <<"b">>
    /\ oggetti[2].id = 2 /\ disegno.disegnati[2].nome = <<"Sconosciuto">>

\* C18: for a device that delivers its default size D only and refuses
\* every other request, the probe returns the list [D]; whenever the list
\* has one element the selector returns that element and no input is read:
\* the prompt is reached only with two candidates or more.
C18_SingleCandidate ==
    /\ (pc = "chiedi_risoluzione" /\ camera.rigid /\ camera.modes = {camera.start}) =>
          risoluzioni = <<res_iniziale>>
    /\ (pc = "scelta_fatta" /\ Len(risoluzioni) = 1) =>
          /\ risoluzione_scelta = risoluzioni[1]
          /\ evento = "none"
          /\ scelta_str = Unset
    /\ pc = "prompt" => Len(risoluzioni) >= 2

\* the 640x480-only camera: the selector returned its default unasked
C18_Witness ==
    /\ pc = "scelta_fatta"
    /\ camera.rigid /\ camera.modes = {<<640, 480>>} /\ camera.reports
    /\ risoluzioni = << <<640, 480>> >>
    /\ risoluzione_scelta = <<640, 480>>
    /\ evento = "none"

\* C19: a discarded out-of-bounds detection does not stop the frame: for
\* every list of detections the detections drawn are exactly those of the
\* list that are in bounds (and can be drawn), wherever they stand in the
\* list (violated: a detection whose handling raises ends the for loop, and
\* the in-bounds detections after it are not drawn).
C19_DrawnIsInBoundsSubset ==
    pc = "imshow" =>
        { k \in 1..Len(oggetti) : Disegnato(k) } =
            { k \in 1..Len(oggetti) : NeiLimiti(k) /\ oggetti[k].err = "none" }

\* C20: once computed, both scale factors are strictly positive and finite,
\* whatever width and height the capture device reports after the chosen
\* resolution is applied and whatever input size the model reports
\* (violated: a device answering 0 for its frame size gives factors 0.0).
C20_ScalePositive ==
    scale_x # None =>
        /\ scale_x[1] > 0 /\ scale_x[2] > 0
        /\ scale_y[1] > 0 /\ scale_y[2] > 0

\* the phase of the session a position of main belongs to: 0 initializing,
\* 1 running (the frame loop), 2 terminating or ended
Fase(p) ==
    IF p \in {"while", "read", "inferenza", "get_objects", "disegna", "imshow", "waitKey"} THEN 1
    ELSE IF p \in {"rilascio", "done", "crashed"} THEN 2
    ELSE 0

\* the positions that can follow a position of the frame loop
DopoDi(p) ==
    CASE p = "while"       -> {"read", "rilascio"}
      [] p = "read"        -> {"inferenza", "rilascio"}
      [] p = "inferenza"   -> {"get_objects", "crashed"}
      [] p = "get_objects" -> {"disegna"}
      [] p = "disegna"     -> {"imshow"}
      [] p = "imshow"      -> {"waitKey", "crashed"}
      [] p = "waitKey"     -> {"while", "rilascio", "crashed"}

\* C21: the session goes from initializing to running to terminating and
\* never back; an iteration of the loop captures, infers, retrieves the
\* detections, draws, displays and polls the key in this order, each step
\* acting on its own variables only, and a frame is captured only at the
\* start of an iteration, which follows the key poll of the one before.
C21_PhaseOrder ==
    [][ /\ Fase(pc') >= Fase(pc)
        /\ Fase(pc) = 1 => pc' \in DopoDi(pc)
        /\ pc' = "while" => pc \in {"fattori_di_scala", "waitKey"}
        /\ pc' = "read" => pc = "while"
        /\ (frame_nativo' # frame_nativo /\ frame_nativo' # None) => pc = "read"
        /\ (oggetti' # oggetti /\ oggetti' # <<>>) => pc = "get_objects"
        /\ (disegno' # disegno /\ disegno' # NessunDisegno) => pc = "disegna"
        /\ (finestre' # finestre /\ finestre' = "shown") => pc = "imshow"
        /\ (key' # key /\ key' # 0 - 1) => pc = "waitKey" ]_vars

\* the second frame of a session is about to be read: the first one was
\* displayed and its key poll is over
C21_Witness ==
    /\ pc = "read"
    /\ finestre = "shown"
    /\ frame_nativo = None
    /\ key = 0 - 1

\* C22: at the key poll only the toggle-debug key changes the debug flag and
\* only the quit key ends the loop; no key, or a key other than q, s, d,
\* leaves the session as it is; the screenshot key leaves the debug flag as
\* it is and the loop running (violated: when writing the screenshot raises,
\* the screenshot key ends the loop and main).
C22_KeyPollEffects ==
    [][ pc = "waitKey" =>
          /\ debug_mode' # debug_mode => key' = 100
          /\ pc' # "while" => key' = 113
          /\ key' \notin {113, 115, 100} =>
                /\ pc' = "while"
                /\ UNCHANGED <<fsVars, devVars, probeVars, selVars, sessVars, frame_nativo, oggetti,
                               soglia_attuale, disegno, esito_imwrite, stampa, testo_webcam>>
          /\ key' = 115 => (debug_mode' = debug_mode /\ pc' = "while") ]_vars

\* C23: the native size is what the device reports once the chosen size has
\* been requested: the scale factors are that size over the input size and
\* the overlay shows that size; it is the chosen candidate when the device
\* has taken the request, and the reported size otherwise.
C23_NativeIsReported ==
    /\ nativo # None =>
          /\ nativo = CapGet(camera, res)
          /\ (camera.reports /\ res = risoluzione_scelta) => nativo = risoluzione_scelta
    /\ scale_x # None =>
          /\ scale_x[1] = nativo[1] /\ scale_x[2] = input_size[1]
          /\ scale_y[1] = nativo[2] /\ scale_y[2] = input_size[2]
    /\ testo_webcam # None => testo_webcam = nativo

\* the device did not take the chosen size: a frame is shown with the size
\* it reports
C23_Witness ==
    /\ pc = "waitKey"
    /\ nativo # risoluzione_scelta
    /\ nativo = CapGet(camera, res)
    /\ nativo[1] > 0
    /\ testo_webcam = nativo

\* C24: setup.py starts its phases in the order 1 (virtual environment), 2
\* (dependencies), 3 (downloads); the first phase that fails ends the process
\* with exit status 1 and no later phase is started; in phase 3 a file that
\* is present is not downloaded, and a failed model download is followed by
\* the attempt to download the labels (unless present) and status 1.
C24_SetupPhases ==
    /\ \E n \in 0..3 : fasi = SubSeq(<<1, 2, 3>>, 1, n)
    /\ tentati # <<>> => fasi = <<1, 2, 3>>
    /\ modello_presente => \A k \in 1..Len(tentati) : tentati[k] # "modello"
    /\ etichette_presenti => \A k \in 1..Len(tentati) : tentati[k] # "etichette"
    /\ Len(tentati) = 2 => tentati = <<"modello", "etichette">>
    /\ exit_status \in {0 - 1, 0, 1}
    /\ pc_setup = "exited" =>
          /\ exit_status # 0 - 1
          /\ IF ~ in_venv
             THEN exit_status = 1 /\ fasi = <<1>> /\ tentati = <<>>
             ELSE IF ~ reqs_presente \/ esito_pip # "ok"
             THEN exit_status = 1 /\ fasi = <<1, 2>> /\ tentati = <<>>
             ELSE IF cartella = "negata"
             THEN exit_status = 1 /\ fasi = <<1, 2, 3>> /\ tentati = <<>>
             ELSE /\ fasi = <<1, 2, 3>>
                  /\ ~ modello_presente => tentati[1] = "modello"
                  /\ ~ etichette_presenti => tentati[Len(tentati)] = "etichette"
                  /\ exit_status = IF \/ (~ modello_presente /\ ~ url_modello)
                                      \/ (~ etichette_presenti /\ ~ url_etichette)
                                   THEN 1 ELSE 0
                  /\ scaricati = { f \in {"modello", "etichette"} :
                                      \/ (f = "modello" /\ ~ modello_presente /\ url_modello)
                                      \/ (f = "etichette" /\ ~ etichette_presenti /\ url_etichette) }

\* the model download failed, the labels were downloaded all the same, and
\* setup.py ended with status 1
C24_Witness ==
    /\ pc_setup = "exited"
    /\ tentati = <<"modello", "etichette">>
    /\ ~ url_modello
    /\ scaricati = {"etichette"}
    /\ exit_status = 1

====
